---- MODULE Spec2Model ----
(***************************************************************************)
(* Model of turbustat/statistics/scf/scf.py: the SCF object (roll lags,    *)
(* surface, spectrum, stddev flag) and the SCF_Distance object built on    *)
(* two of them.                                                            *)
(*                                                                         *)
(* Floating-point numbers are modelled in fixed point: the integer n       *)
(* stands for n / Scale, divisions and square roots round down, and NaN    *)
(* is a value of its own that every operation but nansum propagates.       *)
(* Cube voxels hold whole numbers (0.0, 1.0, ...) or NaN.                  *)
(***************************************************************************)
EXTENDS Integers, Sequences, FiniteSets, TLC

VARIABLES cube1, cube2, scf, dist, exc, ret, call

vars == <<cube1, cube2, scf, dist, exc, ret, call>>

---------------------------------------------------------------------------
(* Bounds of the model.                                                    *)

\* sizes passed to the constructors range over 0 .. MaxSize, and the
\* roll_lags arrays passed have at most MaxSize elements
MaxSize == 5
\* at most MaxCalls surface computations are counted on one SCF object
MaxCalls == 2
\* fixed-point unit: the integer Scale stands for 1.0
Scale == 64

\* shape of every cube: (spectral channels, spatial axis 1, spatial axis 2)
CubeShape == <<1, 2, 2>>

---------------------------------------------------------------------------
(* Values.                                                                 *)

NaN == -1000000

None == <<>>
Some(x) == <<x>>
IsSet(o) == o /= None
Get(o) == o[1]

One == Scale

IsNaN(x) == x = NaN
IsFinite(x) == x /= NaN

\* the largest r in lo .. hi with r * r <= n, by bisection
RECURSIVE ISqrtIn(_, _, _)
ISqrtIn(n, lo, hi) ==
    IF lo = hi THEN lo
    ELSE LET mid == (lo + hi + 1) \div 2
         IN  IF mid * mid <= n THEN ISqrtIn(n, mid, hi) ELSE ISqrtIn(n, lo, mid - 1)
\* floor of the square root of a natural number below 2^30
ISqrt(n) == ISqrtIn(n, 0, IF n < 32767 THEN n ELSE 32767)

\* fixed-point arithmetic, NaN-propagating as IEEE arithmetic is
FSub(a, b) == IF IsNaN(a) \/ IsNaN(b) THEN NaN ELSE a - b
FMul(a, b) == IF IsNaN(a) \/ IsNaN(b) THEN NaN ELSE (a * b) \div Scale
\* 0/0 is NaN; a nonzero numerator over zero does not occur in this model
FDiv(a, b) == IF IsNaN(a) \/ IsNaN(b) \/ b = 0 THEN NaN ELSE (a * Scale) \div b
FSqrt(a) == IF IsNaN(a) \/ a < 0 THEN NaN ELSE ISqrt(a * Scale)

\* the function f on 1 .. n as a sequence of computed values
RECURSIVE Tabulated(_, _)
Tabulated(f, n) == IF n = 0 THEN <<>> ELSE Append(Tabulated(f, n - 1), f[n])

\* sum of the first n values of the sequence q
RECURSIVE SumUpTo(_, _, _)
SumUpTo(q, n, nansum) ==
    IF n = 0 THEN 0
    ELSE LET rest == SumUpTo(q, n - 1, nansum)
             x == q[n]
         IN  IF IsNaN(x) THEN (IF nansum THEN rest ELSE NaN)
             ELSE IF IsNaN(rest) THEN NaN ELSE x + rest

\* np.nansum: NaN counts as zero
NanSum(q) == SumUpTo(q, Len(q), TRUE)
\* np.sum: one NaN makes the sum NaN
NpSum(q) == SumUpTo(q, Len(q), FALSE)
\* np.sum(np.isfinite(q))
CountFinite(q) == Cardinality({k \in 1 .. Len(q) : IsFinite(q[k])})

\* the cells of an n x n array in row order, and the array flattened
CellSeq(n) == [k \in 1 .. n * n |-> <<((k - 1) \div n) + 1, ((k - 1) % n) + 1>>]
Flat(arr) ==
    LET n == Len(arr)
    IN  [k \in 1 .. n * n |-> arr[((k - 1) \div n) + 1][((k - 1) % n) + 1]]

---------------------------------------------------------------------------
(* Cubes.                                                                  *)

Chans == 1 .. CubeShape[1]
Ys == 1 .. CubeShape[2]
Xs == 1 .. CubeShape[3]
Voxels == Chans \X Ys \X Xs
\* the spatial pixels (y, x) in row order
PixelSeq ==
    [k \in 1 .. CubeShape[2] * CubeShape[3] |->
        <<((k - 1) \div CubeShape[3]) + 1, ((k - 1) % CubeShape[3]) + 1>>]

VoxelVals == {0, 1, NaN}
\* values of the further constant cubes
ConstVals == {2, 3}
Cubes == [Voxels -> VoxelVals] \cup {[v \in Voxels |-> c] : c \in ConstVals}

\* circular shift of the cube by an integer number of pixels along a spatial axis
fourier_shift(data, shift, axis) ==
    [v \in Voxels |->
        IF axis = 1
        THEN data[<<v[1], ((v[2] - 1 - shift) % CubeShape[2]) + 1, v[3]>>]
        ELSE data[<<v[1], v[2], ((v[3] - 1 - shift) % CubeShape[3]) + 1>>]]

---------------------------------------------------------------------------
(* SCF.__init__                                                            *)

\* np.arange(size) - size / 2, with Python 2 integer division
ArangeCentred(size) ==
    [k \in 1 .. (IF size > 0 THEN size ELSE 0) |-> (k - 1) - (size \div 2)]

\* the roll_lags of SCF(cube, size=size)
RollLagsFromSize(size) ==
    ArangeCentred(IF size % 2 = 0 THEN size - 1 ELSE size)

\* roll_lags[:-1]
DropLast(s) == IF Len(s) = 0 THEN s ELSE SubSeq(s, 1, Len(s) - 1)

\* mutant: the array is stored whole, the even-length truncation forgotten
RollLagsKeepAll(roll_lags) == roll_lags

\* the roll_lags of SCF(cube, roll_lags=roll_lags)
RollLagsFromArray(roll_lags) ==
    IF Len(roll_lags) % 2 = 0 THEN DropLast(roll_lags) ELSE roll_lags

\* the object SCF.__init__ leaves behind; _stddev_flag is not assigned there
NewSCF(data, roll_lags) ==
    [data |-> data,
     roll_lags |-> roll_lags,
     size |-> Len(roll_lags),
     scf_surface |-> None,
     scf_spectrum |-> None,
     scf_spectrum_stddev |-> None,
     lags |-> None,
     stddev_flag |-> "unset",
     nsurf |-> 0]

---------------------------------------------------------------------------
(* SCF.compute_surface                                                     *)

\* the per-pixel ratio of line 101-103 for the shifted cube tmp
RatioAt(data, tmp, p) ==
    LET key(c) == <<c, p[1], p[2]>>
        dsq == [c \in Chans |->
                   IF IsNaN(data[key(c)]) \/ IsNaN(tmp[key(c)]) THEN NaN
                   ELSE (data[key(c)] - tmp[key(c)]) * (data[key(c)] - tmp[key(c)])]
        d2 == [c \in Chans |->
                   IF IsNaN(data[key(c)]) THEN NaN ELSE data[key(c)] * data[key(c)]]
        t2 == [c \in Chans |->
                   IF IsNaN(tmp[key(c)]) THEN NaN ELSE tmp[key(c)] * tmp[key(c)]]
    IN  FDiv(NanSum(dsq) * Scale, (NanSum(d2) + NanSum(t2)) * Scale)

\* mutant: the root-mean ratio is stored without being taken from 1
ScfValueNoComplement(data, x_shift, y_shift) ==
    LET tmp1 == IF x_shift = 0 THEN data ELSE fourier_shift(data, x_shift, 1)
        tmp == IF y_shift /= 0 THEN fourier_shift(tmp1, y_shift, 2) ELSE tmp1
        values == Tabulated([k \in 1 .. Len(PixelSeq) |-> RatioAt(data, tmp, PixelSeq[k])],
                            Len(PixelSeq))
    IN  FSqrt(FDiv(NanSum(values), CountFinite(values) * Scale))

\* the value the loop body stores for the lag pair (x_shift, y_shift)
ScfValue(data, x_shift, y_shift) ==
    LET tmp1 == IF x_shift = 0 THEN data ELSE fourier_shift(data, x_shift, 1)
        tmp == IF y_shift /= 0 THEN fourier_shift(tmp1, y_shift, 2) ELSE tmp1
        values == Tabulated([k \in 1 .. Len(PixelSeq) |-> RatioAt(data, tmp, PixelSeq[k])],
                            Len(PixelSeq))
    IN  FSub(One, FSqrt(FDiv(NanSum(values), CountFinite(values) * Scale)))

\* the values written to cell (i, j), in order: line 91 when both shifts are
\* zero, then line 107 in every iteration
CellWrites(data, x_shift, y_shift) ==
    (IF x_shift = 0 /\ y_shift = 0 THEN <<One>> ELSE <<>>)
        \o <<ScfValue(data, x_shift, y_shift)>>

\* the surface compute_surface stores: the last value written to each cell
ComputedSurface(data, roll_lags) ==
    LET n == Len(roll_lags)
    IN  Tabulated([i \in 1 .. n |->
            Tabulated([j \in 1 .. n |->
                LET w == CellWrites(data, roll_lags[i], roll_lags[j]) IN w[Len(w)]], n)], n)

\* mutant: the computation is skipped when a surface is already stored
compute_surface_cached(s) ==
    IF s.scf_surface /= None THEN s
    ELSE [s EXCEPT !.scf_surface = Some(ComputedSurface(s.data, s.roll_lags)),
                   !.nsurf = s.nsurf + 1]

\* mutant: the shifts are done in place, so the cube held ends as the cube
\* shifted by the last lag pair
compute_surface_inplace(s) ==
    LET n == Len(s.roll_lags)
        last == IF n = 0 THEN 0 ELSE s.roll_lags[n]
    IN  [s EXCEPT !.scf_surface = Some(ComputedSurface(s.data, s.roll_lags)),
                  !.nsurf = s.nsurf + 1,
                  !.data = fourier_shift(fourier_shift(s.data, last, 1), last, 2)]

\* lines 82-107; nsurf counts the executions of the loop
compute_surface(s) ==
    [s EXCEPT !.scf_surface = Some(ComputedSurface(s.data, s.roll_lags)),
              !.nsurf = s.nsurf + 1]

---------------------------------------------------------------------------
(* pspec: the radial binning routine compute_spectrum calls               *)

\* index of the radial bin of cell (i, j) of an n x n surface: the distance
\* from the centre cell, rounded to the nearest whole number
BinOf(n, i, j) ==
    LET c == (n \div 2) + 1
        r2 == (i - c) * (i - c) + (j - c) * (j - c)
    IN  (ISqrt(4 * r2) + 1) \div 2

\* the cells of bin k, in row order; the cells of other bins read as NaN
BinCells(surface, k) ==
    LET n == Len(surface)
    IN  Tabulated([c \in 1 .. n * n |->
                      IF BinOf(n, CellSeq(n)[c][1], CellSeq(n)[c][2]) = k
                      THEN Flat(surface)[c] ELSE NaN], n * n)

\* mean of the finite cells of a bin
BinMean(cells) == FDiv(NanSum(cells), CountFinite(cells) * Scale)

\* standard deviation of the finite cells of a bin
BinStd(cells) ==
    LET m == BinMean(cells)
        f == Tabulated([c \in 1 .. Len(cells) |->
                           LET d == FSub(cells[c], m) IN FMul(d, d)], Len(cells))
    IN  FSqrt(FDiv(NanSum(f), CountFinite(f) * Scale))

\* pspec(surface, return_freqs=False): bin indices 1 .. n/2, the bin means
\* and the bin standard deviations
pspec(surface) ==
    LET n == Len(surface)
        nbins == n \div 2
    IN  [lags |-> [k \in 1 .. nbins |-> k],
         ps1D |-> [k \in 1 .. nbins |-> BinMean(BinCells(surface, k))],
         ps1D_stddev |-> [k \in 1 .. nbins |-> BinStd(BinCells(surface, k))]]

---------------------------------------------------------------------------
(* SCF.compute_spectrum, SCF.run, SCF.scf_spectrum_stddev                  *)

\* mutant: a call without return_stddev clears the stored stddev
SpectrumAssignedClearing(s, return_stddev) ==
    LET s1 == IF s.scf_surface = None THEN compute_surface(s) ELSE s
        p == pspec(Get(s1.scf_surface))
    IN  [s1 EXCEPT !.lags = Some([value |-> p.lags, unit |-> "none"]),
                   !.scf_spectrum = Some(p.ps1D),
                   !.scf_spectrum_stddev =
                        IF return_stddev THEN Some(p.ps1D_stddev) ELSE None,
                   !.stddev_flag = IF return_stddev THEN "True" ELSE "False"]

\* mutant: the surface is computed again although one is stored
SpectrumAssignedRecomputing(s, return_stddev) ==
    LET s1 == compute_surface(s)
        p == pspec(Get(s1.scf_surface))
    IN  [s1 EXCEPT !.lags = Some([value |-> p.lags, unit |-> "none"]),
                   !.scf_spectrum = Some(p.ps1D),
                   !.scf_spectrum_stddev =
                        IF return_stddev THEN Some(p.ps1D_stddev) ELSE @,
                   !.stddev_flag = IF return_stddev THEN "True" ELSE "False"]

\* lines 126-140: everything compute_spectrum assigns before line 142
SpectrumAssigned(s, return_stddev) ==
    LET s1 == IF s.scf_surface = None THEN compute_surface(s) ELSE s
        p == pspec(Get(s1.scf_surface))
    IN  [s1 EXCEPT !.lags = Some([value |-> p.lags, unit |-> "none"]),
                   !.scf_spectrum = Some(p.ps1D),
                   !.scf_spectrum_stddev =
                        IF return_stddev THEN Some(p.ps1D_stddev) ELSE @,
                   !.stddev_flag = IF return_stddev THEN "True" ELSE "False"]

Abs(x) == IF x < 0 THEN 0 - x ELSE x

\* line 142 indexes roll_lags[1] and roll_lags[0]
SpectrumRaises(s) == Len(s.roll_lags) < 2

\* lines 142-144: the lags in pixel units
LagsInPixels(s) ==
    LET roll_lag_diff == Abs(s.roll_lags[2] - s.roll_lags[1])
        raw == Get(s.lags).value
    IN  [s EXCEPT !.lags = Some([value |-> [k \in 1 .. Len(raw) |-> raw[k] * roll_lag_diff],
                                 unit |-> "pix"])]

\* the object after compute_spectrum, whether it returned or raised
compute_spectrum(s, return_stddev) ==
    LET s2 == SpectrumAssigned(s, return_stddev)
    IN  IF SpectrumRaises(s2) THEN s2 ELSE LagsInPixels(s2)

\* the object after run(return_stddev=...), save_results and verbose off
run(s, return_stddev) == compute_spectrum(compute_surface(s), return_stddev)

\* the property scf_spectrum_stddev raises when _stddev_flag was never assigned
StddevRaises(s) == s.stddev_flag = "unset"

\* what the property returns; Warning(...) at line 69 builds an exception
\* object and drops it, so nothing is emitted
StddevRead(s) == [value |-> s.scf_spectrum_stddev, warned |-> FALSE]

---------------------------------------------------------------------------
(* SCF_Distance.__init__                                                   *)

\* the ratios common_scale may return, as <<numerator, denominator>>; with
\* these every reconciled lag is a whole number of pixels
Scales == {<<1, 1>>, <<2, 1>>, <<1, 2>>}

\* scale * roll_lags
LagsTimes(roll_lags, scale) ==
    [k \in 1 .. Len(roll_lags) |-> (roll_lags[k] * scale[1]) \div scale[2]]

\* roll_lags / float(scale)
LagsOver(roll_lags, scale) ==
    [k \in 1 .. Len(roll_lags) |-> (roll_lags[k] * scale[2]) \div scale[1]]

\* lines 301-307: the size kept and the base lags
DistSize(size) == IF size % 2 = 0 THEN size - 1 ELSE size

\* lines 313-321
roll_lags1(size, scale) ==
    LET roll_lags == ArangeCentred(DistSize(size))
    IN  IF scale[1] = scale[2] THEN roll_lags
        ELSE IF scale[1] > scale[2] THEN LagsTimes(roll_lags, scale)
        ELSE roll_lags

\* mutant: cube 2 always gets the base lags
roll_lags2_unscaled(size, scale) == ArangeCentred(DistSize(size))

roll_lags2(size, scale) ==
    LET roll_lags == ArangeCentred(DistSize(size))
    IN  IF scale[1] = scale[2] THEN roll_lags
        ELSE IF scale[1] > scale[2] THEN roll_lags
        ELSE LagsOver(roll_lags, scale)

\* SCF(cube, roll_lags=roll_lags) followed by run(return_stddev=True)
RunNewSCF(data, roll_lags) ==
    run(NewSCF(data, RollLagsFromArray(roll_lags)), TRUE)

\* run() raises at line 142 when the lag array is shorter than two
DistInitRaises(size, scale, fiducial) ==
    \/ fiducial = None /\ SpectrumRaises(NewSCF(cube1, RollLagsFromArray(roll_lags1(size, scale))))
    \/ SpectrumRaises(NewSCF(cube2, RollLagsFromArray(roll_lags2(size, scale))))

\* the object SCF_Distance.__init__ leaves behind; with a fiducial model
\* scf1 is that very object (the variable scf), not a copy
NewDistance(c1, c2, size, scale, fiducial, weighted) ==
    [weighted |-> weighted,
     size |-> DistSize(size),
     scale |-> scale,
     fiducial |-> fiducial /= None,
     scf1 |-> IF fiducial /= None THEN None
              ELSE Some(RunNewSCF(c1, roll_lags1(size, scale))),
     scf2 |-> RunNewSCF(c2, roll_lags2(size, scale)),
     dist_weight |-> None,
     distance |-> None]

\* self.scf1 of a distance object
Scf1(d) == IF d.fiducial THEN Get(scf) ELSE Get(d.scf1)

---------------------------------------------------------------------------
(* SCF_Distance.distance_metric                                            *)

\* lines 360-361: a[np.where(a == 0)] = 1.
ClampZero(x) == IF x = 0 THEN 1 ELSE x

\* line 362 for the displacement (a, b); a and b are integer arrays
WeightedAt(a, b) ==
    LET ca == ClampZero(a)
        cb == ClampZero(b)
    IN  FDiv(One, FSqrt((ca * ca + cb * cb) * Scale))

\* lines 354-364: dist_weight, the cell [i][j] at displacement (dx[j], dy[i])
DistWeight(size, weighted) ==
    LET dx == ArangeCentred(size)
    IN  [i \in 1 .. size |->
            [j \in 1 .. size |->
                IF weighted THEN WeightedAt(dx[j], dx[i]) ELSE One]]

\* numpy broadcasting of two square arrays of sides m and n
Broadcastable(m, n) == m = n \/ m = 1 \/ n = 1
BroadcastSide(m, n) == IF m = 1 THEN n ELSE m
BAt(arr, i, j) == IF Len(arr) = 1 THEN arr[1][1] ELSE arr[i][j]

\* line 366 raises ValueError when the shapes cannot be broadcast together
DistanceRaises(s1, s2, size) ==
    \/ ~Broadcastable(Len(s1), Len(s2))
    \/ ~Broadcastable(BroadcastSide(Len(s1), Len(s2)), size)

\* mutant: the difference is weighted without being squared
DifferenceUnsquared(s1, s2, w) ==
    LET n == BroadcastSide(BroadcastSide(Len(s1), Len(s2)), Len(w))
    IN  [i \in 1 .. n |->
            [j \in 1 .. n |->
                FMul(FSub(BAt(s1, i, j), BAt(s2, i, j)), BAt(w, i, j))]]

\* line 366: (s1 - s2) ** 2. * dist_weight
Difference(s1, s2, w) ==
    LET n == BroadcastSide(BroadcastSide(Len(s1), Len(s2)), Len(w))
    IN  [i \in 1 .. n |->
            [j \in 1 .. n |->
                LET d == FSub(BAt(s1, i, j), BAt(s2, i, j))
                IN  FMul(FMul(d, d), BAt(w, i, j))]]

\* np.sum of a square array
SumAll(arr) == NpSum(Flat(arr))

\* mutant: the sum is not divided by the total weight
DistanceUnnormalised(s1, s2, w) == FSqrt(SumAll(Difference(s1, s2, w)))

\* line 368
Distance(s1, s2, w) == FSqrt(FDiv(SumAll(Difference(s1, s2, w)), SumAll(w)))

\* the distance object after distance_metric returned
distance_metric(d, s1, s2) ==
    LET w == DistWeight(d.size, d.weighted)
    IN  [d EXCEPT !.dist_weight = Some(w),
                  !.distance = Some(Distance(s1, s2, w))]

---------------------------------------------------------------------------
(* The state machine.  scf is the SCF object the caller holds (None before *)
(* it is constructed), dist the SCF_Distance object; call names the last   *)
(* operation and its argument, exc the exception it raised ("none" when it *)
(* returned) and ret the value a property read returned.                   *)

\* the roll_lags arrays a caller passes: evenly spaced grids
UserRollLags ==
    {[k \in 1 .. n |-> lo + (k - 1) * step] :
        n \in 0 .. MaxSize, lo \in {-2, -1}, step \in {1, 2}}

\* the cubes of the distance scenarios: uniform along the spectral axis and
\* spatial axis 1, with one of these rows along spatial axis 2
DistRows == {<<0, 0>>, <<1, 1>>, <<0, 1>>, <<NaN, 1>>}
DistCubes == {[v \in Voxels |-> row[v[3]]] : row \in DistRows}

Init ==
    /\ cube1 \in Cubes
    /\ cube2 = cube1
    /\ scf = None
    /\ dist = None
    /\ exc = "none"
    /\ ret = None
    /\ call = [op |-> "start", arg |-> 0]

InitDist ==
    /\ cube1 \in DistCubes
    /\ cube2 \in DistCubes
    /\ scf = None
    /\ dist = None
    /\ exc = "none"
    /\ ret = None
    /\ call = [op |-> "start", arg |-> 0]

\* SCF(cube1, size=size)
SCFInitSize(size) ==
    /\ scf = None
    /\ scf' = Some(NewSCF(cube1, RollLagsFromSize(size)))
    /\ call' = [op |-> "SCFInitSize", arg |-> size]
    /\ exc' = "none"
    /\ ret' = None
    /\ UNCHANGED <<cube1, cube2, dist>>

\* SCF(cube1, roll_lags=roll_lags)
SCFInitLags(roll_lags) ==
    /\ scf = None
    /\ scf' = Some(NewSCF(cube1, RollLagsFromArray(roll_lags)))
    /\ call' = [op |-> "SCFInitLags", arg |-> roll_lags]
    /\ exc' = "none"
    /\ ret' = None
    /\ UNCHANGED <<cube1, cube2, dist>>

\* scf.compute_surface()
ComputeSurface ==
    /\ IsSet(scf)
    /\ Get(scf).nsurf < MaxCalls
    /\ scf' = Some(compute_surface(Get(scf)))
    /\ call' = [op |-> "compute_surface", arg |-> 0]
    /\ exc' = "none"
    /\ ret' = None
    /\ UNCHANGED <<cube1, cube2, dist>>

\* scf.compute_spectrum(return_stddev=return_stddev)
ComputeSpectrum(return_stddev) ==
    /\ IsSet(scf)
    /\ Get(scf).scf_surface = None => Get(scf).nsurf < MaxCalls
    /\ scf' = Some(compute_spectrum(Get(scf), return_stddev))
    /\ call' = [op |-> "compute_spectrum", arg |-> return_stddev]
    /\ exc' = IF SpectrumRaises(Get(scf)) THEN "IndexError" ELSE "none"
    /\ ret' = None
    /\ UNCHANGED <<cube1, cube2, dist>>

\* scf.run(return_stddev=return_stddev)
Run(return_stddev) ==
    /\ IsSet(scf)
    /\ Get(scf).nsurf < MaxCalls
    /\ scf' = Some(run(Get(scf), return_stddev))
    /\ call' = [op |-> "run", arg |-> return_stddev]
    /\ exc' = IF SpectrumRaises(Get(scf)) THEN "IndexError" ELSE "none"
    /\ ret' = None
    /\ UNCHANGED <<cube1, cube2, dist>>

\* scf.scf_spectrum_stddev
ReadStddev ==
    /\ IsSet(scf)
    /\ call' = [op |-> "scf_spectrum_stddev", arg |-> 0]
    /\ exc' = IF StddevRaises(Get(scf)) THEN "AttributeError" ELSE "none"
    /\ ret' = IF StddevRaises(Get(scf)) THEN None ELSE Some(StddevRead(Get(scf)))
    /\ UNCHANGED <<cube1, cube2, scf, dist>>

\* SCF_Distance(cube1, cube2, size=size, fiducial_model=..., weighted=weighted)
\* with common_scale returning scale; a fiducial model is a computed SCF
DistInit(size, scale, weighted, use_fiducial) ==
    /\ dist = None
    /\ use_fiducial => IsSet(scf) /\ IsSet(Get(scf).scf_surface)
    /\ LET fiducial == IF use_fiducial THEN scf ELSE None
       IN  IF DistInitRaises(size, scale, fiducial)
           THEN /\ exc' = "IndexError"
                /\ dist' = dist
           ELSE /\ exc' = "none"
                /\ dist' = Some(NewDistance(cube1, cube2, size, scale, fiducial, weighted))
    /\ call' = [op |-> "SCF_Distance", arg |-> size]
    /\ ret' = None
    /\ UNCHANGED <<cube1, cube2, scf>>

\* dist.distance_metric()
DistanceMetric ==
    /\ IsSet(dist)
    /\ LET d == Get(dist)
           s1 == Get(Scf1(d).scf_surface)
           s2 == Get(d.scf2.scf_surface)
       IN  IF DistanceRaises(s1, s2, d.size)
           THEN /\ exc' = "ValueError"
                /\ dist' = dist
           ELSE /\ exc' = "none"
                /\ dist' = Some(distance_metric(d, s1, s2))
    /\ call' = [op |-> "distance_metric", arg |-> 0]
    /\ ret' = None
    /\ UNCHANGED <<cube1, cube2, scf>>

Sizes == 0 .. MaxSize

Next ==
    \/ \E size \in Sizes : SCFInitSize(size)
    \/ \E roll_lags \in UserRollLags : SCFInitLags(roll_lags)
    \/ ComputeSurface
    \/ \E return_stddev \in BOOLEAN : ComputeSpectrum(return_stddev)
    \/ \E return_stddev \in BOOLEAN : Run(return_stddev)
    \/ ReadStddev

\* the life of one SCF object
Spec == Init /\ [][Next]_vars

\* the caller first builds (and computes) a fiducial model or builds none,
\* then builds the distance object, with the fiducial model when it has one
NextDist ==
    \/ \E size \in Sizes : dist = None /\ SCFInitSize(size)
    \/ \E roll_lags \in UserRollLags : dist = None /\ SCFInitLags(roll_lags)
    \/ dist = None /\ ComputeSurface
    \/ \E size \in Sizes, scale \in Scales, weighted \in BOOLEAN :
          DistInit(size, scale, weighted, IsSet(scf))
    \/ DistanceMetric

\* two cubes compared by an SCF_Distance, with or without a fiducial model
SpecDist == InitDist /\ [][NextDist]_vars

\* the cubes of the scenarios that mix the two objects
FrameRows == {<<0, 1>>, <<NaN, 1>>}
FrameCubes == {[v \in Voxels |-> row[v[3]]] : row \in FrameRows}

InitFrame ==
    /\ cube1 = [v \in Voxels |-> <<0, 1>>[v[3]]]
    /\ cube2 \in FrameCubes
    /\ scf = None
    /\ dist = None
    /\ exc = "none"
    /\ ret = None
    /\ call = [op |-> "start", arg |-> 0]

\* every operation of the two objects, in any order: the caller's SCF is
\* still used after it was handed to an SCF_Distance as fiducial model
NextFrame ==
    \/ \E size \in Sizes : SCFInitSize(size)
    \/ ComputeSurface
    \/ \E return_stddev \in BOOLEAN : ComputeSpectrum(return_stddev)
    \/ \E return_stddev \in BOOLEAN : Run(return_stddev)
    \/ \E size \in Sizes, scale \in Scales, weighted, use_fiducial \in BOOLEAN :
          DistInit(size, scale, weighted, use_fiducial)
    \/ DistanceMetric

\* one SCF object and one SCF_Distance object used side by side
SpecFrame == InitFrame /\ [][NextFrame]_vars

---------------------------------------------------------------------------
(* Claims.                                                                 *)

Surface == Get(Get(scf).scf_surface)
HasSurface == IsSet(scf) /\ IsSet(Get(scf).scf_surface)
Lags == Get(scf).roll_lags

\* C1: after compute_surface, for every cube and every lag grid holding a
\* zero lag, the cell at the index pair of the zero lag is exactly 1.0.
C1_ZeroLagCellIsOne ==
    HasSurface =>
        \A i, j \in 1 .. Len(Lags) :
            Lags[i] = 0 /\ Lags[j] = 0 => Surface[i][j] = One

\* C2: the roll-lag array stored by SCF (from any size or any array) and by
\* SCF_Distance (from any size) has odd length, and an even-length array of
\* length 2k is stored as its first 2k-1 elements.
C2_RollLagsOddLength ==
    /\ IsSet(scf) => Len(Lags) % 2 = 1
    /\ IsSet(scf) /\ call.op = "SCFInitLags" /\ Len(call.arg) % 2 = 0 =>
           /\ Len(Lags) = Len(call.arg) - 1
           /\ \A k \in 1 .. Len(Lags) : Lags[k] = call.arg[k]
    /\ IsSet(dist) =>
           /\ Len(Get(dist).scf2.roll_lags) % 2 = 1
           /\ Len(Scf1(Get(dist)).roll_lags) % 2 = 1

\* C2 as amended: the stored array has odd length whenever the size is at
\* least 1 or the array given is not empty (an even-length array of length
\* 2k >= 2 is stored as its first 2k-1 elements); a size below 1 or an empty
\* array stores the empty array.  The SCFs an SCF_Distance builds itself
\* hold odd-length arrays.
C2_RollLagsOddUnlessEmpty ==
    /\ IsSet(scf) => Len(Lags) % 2 = 1 \/ Len(Lags) = 0
    /\ IsSet(scf) /\ call.op = "SCFInitSize" =>
           IF call.arg >= 1 THEN Len(Lags) % 2 = 1 ELSE Len(Lags) = 0
    /\ IsSet(scf) /\ call.op = "SCFInitLags" =>
           /\ IF Len(call.arg) >= 1 THEN Len(Lags) % 2 = 1 ELSE Len(Lags) = 0
           /\ Len(call.arg) % 2 = 1 => Lags = call.arg
           /\ Len(call.arg) % 2 = 0 /\ Len(call.arg) >= 2 =>
                 /\ Len(Lags) = Len(call.arg) - 1
                 /\ \A k \in 1 .. Len(Lags) : Lags[k] = call.arg[k]
    /\ IsSet(dist) =>
           /\ Len(Get(dist).scf2.roll_lags) % 2 = 1
           /\ ~Get(dist).fiducial => Len(Scf1(Get(dist)).roll_lags) % 2 = 1

\* an even-length array was passed and stored without its last element
C2_Witness ==
    /\ IsSet(scf)
    /\ call.op = "SCFInitLags"
    /\ Len(call.arg) = 4
    /\ Len(Lags) = 3

\* C3: with weighted=True the weight at every displacement (a, b) but the
\* centre is 1/sqrt(a^2 + b^2) and the centre alone gets weight 1; with
\* weighted=False every weight is 1.
C3_WeightIsInverseRadius ==
    IsSet(dist) /\ IsSet(Get(dist).dist_weight) =>
        LET d == Get(dist)
            w == Get(d.dist_weight)
            c == (d.size \div 2) + 1
        IN  \A i, j \in 1 .. d.size :
                LET a == j - c
                    b == i - c
                IN  w[i][j] =
                        IF ~d.weighted \/ (a = 0 /\ b = 0) THEN One
                        ELSE FDiv(One, FSqrt((a * a + b * b) * Scale))

\* C4: compute_surface on an SCF whose surface is already computed is
\* skipped, called directly or through run(): nothing is recomputed and the
\* stored surface is unchanged.
C4_ComputeSurfaceSkipped ==
    [][HasSurface /\ call'.op \in {"compute_surface", "run"} =>
           /\ Get(scf').nsurf = Get(scf).nsurf
           /\ Get(scf').scf_surface = Get(scf).scf_surface]_vars

\* C4 as amended: compute_surface on an SCF whose surface is already
\* computed computes the surface again, called directly or through run();
\* the surface stored afterwards holds the same values as before.
C4_ComputeSurfaceRecomputes ==
    [][HasSurface /\ call'.op \in {"compute_surface", "run"} =>
           /\ Get(scf').nsurf = Get(scf).nsurf + 1
           /\ Get(scf').scf_surface = Get(scf).scf_surface]_vars

\* the surface was computed a second time by a direct call
C4_Witness ==
    /\ HasSurface
    /\ call.op = "compute_surface"
    /\ Get(scf).nsurf = 2
    /\ Len(Lags) = 3

\* C5: reading scf_spectrum_stddev while the stddev was not requested
\* (also right after construction) raises nothing, emits a warning and
\* returns None.
C5_StddevReadWarnsAndReturnsNone ==
    IsSet(scf) /\ call.op = "scf_spectrum_stddev" /\ Get(scf).stddev_flag /= "True" =>
        /\ exc = "none"
        /\ IsSet(ret)
        /\ Get(ret).value = None
        /\ Get(ret).warned

\* C6: when the two surfaces of an SCF_Distance differ in shape,
\* distance_metric fails with a shape-mismatch error, a 1x1 surface included.
C6_ShapeMismatchRaises ==
    IsSet(dist) /\ call.op = "distance_metric" =>
        LET d == Get(dist)
        IN  Len(Get(Scf1(d).scf_surface)) /= Len(Get(d.scf2.scf_surface)) =>
                exc = "ValueError"

S1 == Get(Scf1(Get(dist)).scf_surface)
S2 == Get(Get(dist).scf2.scf_surface)
HasDistance == IsSet(dist) /\ IsSet(Get(dist).distance)
AllFinite(arr) == \A i, j \in 1 .. Len(arr) : IsFinite(arr[i][j])

\* C7: the distance is the same with the two surfaces swapped, and is
\* exactly zero when the two surfaces are identical, NaN cells included, in
\* both modes.
C7_SymmetricAndZeroOnIdentical ==
    HasDistance =>
        LET d == Get(dist)
            w == Get(d.dist_weight)
        IN  /\ Get(d.distance) = Distance(S2, S1, w)
            /\ S1 = S2 => Get(d.distance) = 0

\* C7 as amended: the distance is the same with the two surfaces swapped,
\* and is exactly zero when the two surfaces are identical and hold only
\* finite cells; identical surfaces with a NaN cell give the distance NaN.
C7_SymmetricAndZeroOnFiniteIdentical ==
    HasDistance =>
        LET d == Get(dist)
            w == Get(d.dist_weight)
        IN  /\ Get(d.distance) = Distance(S2, S1, w)
            /\ S1 = S2 /\ AllFinite(S1) => Get(d.distance) = 0
            /\ S1 = S2 /\ ~AllFinite(S1) => IsNaN(Get(d.distance))

\* two identical finite surfaces that are not uniform were compared, weighted
C7_Witness ==
    /\ HasDistance
    /\ Get(dist).weighted
    /\ S1 = S2
    /\ AllFinite(S1)
    /\ \E i, j \in 1 .. Len(S1) : S1[i][j] /= One
    /\ Get(Get(dist).distance) = 0

\* the lag grids the claim C8 gives cube 1 and cube 2 for a size and a ratio
C8_Base(size) == [k \in 1 .. size |-> k - 1 - ((size - 1) \div 2)]
C8_Grid1Ok(lags, size, scale) ==
    /\ Len(lags) = size
    /\ \A k \in 1 .. size :
           IF scale[1] > scale[2]
           THEN lags[k] * scale[2] = C8_Base(size)[k] * scale[1]
           ELSE lags[k] = C8_Base(size)[k]
C8_Grid2Ok(lags, size, scale) ==
    /\ Len(lags) = size
    /\ \A k \in 1 .. size :
           IF scale[1] < scale[2]
           THEN lags[k] * scale[1] = C8_Base(size)[k] * scale[2]
           ELSE lags[k] = C8_Base(size)[k]

IsConstantCube(c) == \E x \in VoxelVals \cup ConstVals : IsFinite(x) /\ \A v \in Voxels : c[v] = x

\* C9: for every constant cube of a finite value and every lag grid, every
\* cell of the computed surface is 1.0.
C9_ConstantCubeSurfaceIsOne ==
    HasSurface /\ IsConstantCube(Get(scf).data) =>
        \A i, j \in 1 .. Len(Surface) : Surface[i][j] = One

\* C9 as amended: for every constant cube of a finite value other than zero
\* and every lag grid, every cell of the computed surface is 1.0.
C9_NonzeroConstantCubeSurfaceIsOne ==
    HasSurface /\ IsConstantCube(Get(scf).data) /\ Get(scf).data[<<1, 1, 1>>] /= 0 =>
        \A i, j \in 1 .. Len(Surface) : Surface[i][j] = One

\* a 3x3 surface was computed from a cube of constant value 2
C9_Witness ==
    /\ HasSurface
    /\ \A v \in Voxels : Get(scf).data[v] = 2
    /\ Len(Surface) = 3
    /\ Lags = <<-1, 0, 1>>

\* sqrt(mean((s1 - s2)^2)) over all cells
C10_RMS(s1, s2) ==
    LET n == Len(s1)
        sq == [k \in 1 .. n * n |->
                  ((Flat(s1)[k] - Flat(s2)[k]) * (Flat(s1)[k] - Flat(s2)[k])) \div Scale]
        mean == (NanSum(sq) * Scale) \div (n * n * Scale)
    IN  ISqrt(mean * Scale)

\* C10: with weighted=False the distance stored equals sqrt(mean((s1-s2)^2))
\* over all cells, for every pair of finite surfaces of equal shape.
C10_UnweightedIsRMS ==
    HasDistance /\ ~Get(dist).weighted /\ Len(S1) = Len(S2)
            /\ AllFinite(S1) /\ AllFinite(S2) =>
        Get(Get(dist).distance) = C10_RMS(S1, S2)

\* an unweighted distance between two different finite surfaces was stored
C10_Witness ==
    /\ HasDistance
    /\ ~Get(dist).weighted
    /\ Len(S1) = Len(S2)
    /\ AllFinite(S1) /\ AllFinite(S2)
    /\ Get(Get(dist).distance) > 0

\* the cube and the roll lags of an SCF object
Inputs(s) == <<s.data, s.roll_lags>>

\* the SCFs of a distance object hold the cubes given and the lag arrays
\* the constructor stored, and the caller's SCF holds the caller's cube
C11_InputsAsConstructed ==
    /\ IsSet(scf) => Get(scf).data = cube1
    /\ IsSet(dist) =>
           LET d == Get(dist)
           IN  /\ Inputs(d.scf2) =
                      <<cube2, RollLagsFromArray(roll_lags2(d.size, d.scale))>>
               /\ ~d.fiducial =>
                      Inputs(Get(d.scf1)) =
                          <<cube1, RollLagsFromArray(roll_lags1(d.size, d.scale))>>

\* a call of a core operation leaves the cubes and the roll lags as they were
C11_InputsKept ==
    call'.op \in {"compute_surface", "compute_spectrum", "run", "distance_metric"} =>
        /\ cube1' = cube1 /\ cube2' = cube2
        /\ IsSet(scf) => IsSet(scf') /\ Inputs(Get(scf')) = Inputs(Get(scf))
        /\ IsSet(dist) =>
               /\ IsSet(dist')
               /\ Inputs(Get(dist').scf2) = Inputs(Get(dist).scf2)
               /\ Get(dist').fiducial = Get(dist).fiducial
               /\ ~Get(dist).fiducial =>
                      Inputs(Get(Get(dist').scf1)) = Inputs(Get(Get(dist).scf1))

\* C11: no core operation mutates its inputs: after any sequence of
\* compute_surface, compute_spectrum, run and distance_metric calls the cube
\* data and the stored roll_lags hold the values they held right after
\* construction.
C11_InputsNotMutated == []C11_InputsAsConstructed /\ [][C11_InputsKept]_vars

\* a distance was computed with the caller's SCF as fiducial model, after
\* that SCF's surface was computed twice and its spectrum once
C11_Witness ==
    /\ HasDistance
    /\ call.op = "distance_metric"
    /\ Get(dist).fiducial
    /\ Get(scf).nsurf = 2
    /\ IsSet(Get(scf).scf_spectrum)
    /\ Lags = <<-1, 0, 1>>
    /\ Get(scf).data = cube1
    /\ Get(dist).scf2.data = cube2

\* what a compute_spectrum call does to the surface and the spectrum
C12_SpectrumStep ==
    IsSet(scf) /\ call'.op = "compute_spectrum" =>
        LET s == Get(scf)
            t == Get(scf')
        IN  /\ s.scf_surface = None =>
                   /\ t.nsurf = s.nsurf + 1
                   /\ t.scf_surface = Some(ComputedSurface(s.data, s.roll_lags))
            /\ s.scf_surface /= None =>
                   /\ t.nsurf = s.nsurf
                   /\ t.scf_surface = s.scf_surface
            /\ exc' = "none" =>
                   /\ IsSet(t.scf_surface)
                   /\ IsSet(t.scf_spectrum)
                   /\ IsSet(t.lags)
                   /\ Get(t.scf_spectrum) = pspec(Get(t.scf_surface)).ps1D

\* C12: compute_spectrum derives the spectrum from a computed surface: an
\* absent surface is computed first, a present one is used as stored,
\* neither recomputed nor modified; after compute_spectrum returned, the
\* surface, the spectrum and the lags are all set.
C12_SpectrumFromSurface == [][C12_SpectrumStep]_vars

\* compute_spectrum returned on an SCF whose surface was already stored
C12_Witness ==
    /\ IsSet(scf)
    /\ call.op = "compute_spectrum"
    /\ exc = "none"
    /\ Get(scf).nsurf = 2
    /\ IsSet(Get(scf).scf_spectrum)
    /\ IsSet(Get(scf).lags)
    /\ Len(Lags) = 3

\* C13: for every lag grid the constructor accepts (every odd length, length
\* 1 included) compute_spectrum completes and stores as lags the bin indices
\* the binning routine returned times |roll_lags[1] - roll_lags[0]|, in
\* pixel units; for roll_lags = [-2,-1,0,1,2] bin index k maps to lag k.
C13_LagsInPixelUnits ==
    IsSet(scf) /\ call.op = "compute_spectrum" /\ Len(Lags) % 2 = 1 =>
        /\ exc = "none"
        /\ IsSet(Get(scf).lags)
        /\ Get(Get(scf).lags).unit = "pix"
        /\ LET raw == pspec(Surface).lags
               value == Get(Get(scf).lags).value
           IN  /\ Len(value) = Len(raw)
               /\ \A k \in 1 .. Len(raw) : value[k] = raw[k] * Abs(Lags[2] - Lags[1])
               /\ Lags = <<-2, -1, 0, 1, 2>> => \A k \in 1 .. Len(value) : value[k] = k

\* the operations that execute compute_spectrum with the argument call.arg
SpectrumOps == {"compute_spectrum", "run"}

\* C14: after compute_spectrum calls on one SCF the stddev flag is true
\* exactly when the most recent call had return_stddev=True, and when the
\* flag is false the stored stddev is None, never an array left by an
\* earlier call; scf_spectrum_stddev returns the stored stddev.
C14_StddevOfLastCall ==
    /\ IsSet(scf) /\ call.op \in SpectrumOps =>
           /\ Get(scf).stddev_flag = (IF call.arg THEN "True" ELSE "False")
           /\ Get(scf).stddev_flag = "False" => Get(scf).scf_spectrum_stddev = None
           /\ Get(scf).stddev_flag = "True" =>
                  Get(scf).scf_spectrum_stddev = Some(pspec(Surface).ps1D_stddev)
    /\ IsSet(scf) /\ call.op = "scf_spectrum_stddev" /\ exc = "none" =>
           Get(ret).value = Get(scf).scf_spectrum_stddev

\* what one step does to the flag and the stored stddev
C14_StddevStep ==
    IsSet(scf) =>
        LET s == Get(scf)
            t == Get(scf')
        IN  /\ call'.op \in SpectrumOps /\ call'.arg =>
                   /\ t.stddev_flag = "True"
                   /\ t.scf_spectrum_stddev = Some(pspec(Get(t.scf_surface)).ps1D_stddev)
            /\ call'.op \in SpectrumOps /\ ~call'.arg =>
                   /\ t.stddev_flag = "False"
                   /\ t.scf_spectrum_stddev = s.scf_spectrum_stddev
            /\ call'.op \notin SpectrumOps =>
                   /\ t.stddev_flag = s.stddev_flag
                   /\ t.scf_spectrum_stddev = s.scf_spectrum_stddev
            /\ call'.op = "scf_spectrum_stddev" /\ exc' = "none" =>
                   Get(ret').value = s.scf_spectrum_stddev

\* C14 as amended: the flag does not exist before the first compute_spectrum
\* call; after one it is true exactly when the most recent call had
\* return_stddev=True.  A call with return_stddev=True stores the stddev of
\* its own binning; a call with return_stddev=False leaves the stored
\* stddev as it was, so with the flag false the stored stddev is None only
\* if no earlier call had return_stddev=True, and the array of the last
\* such call otherwise.  scf_spectrum_stddev returns the stored stddev.
C14_StddevKeptWhenNotRequested ==
    /\ [](IsSet(scf) =>
             /\ Get(scf).stddev_flag = "unset" <=> Get(scf).scf_spectrum = None
             /\ Get(scf).stddev_flag = "unset" => Get(scf).scf_spectrum_stddev = None)
    /\ [][C14_StddevStep]_vars

\* the flag is false after a call without return_stddev, and the stddev
\* stored by an earlier call is still there
C14_Witness ==
    /\ IsSet(scf)
    /\ call.op = "compute_spectrum"
    /\ call.arg = FALSE
    /\ exc = "none"
    /\ Get(scf).stddev_flag = "False"
    /\ IsSet(Get(scf).scf_spectrum_stddev)

====
